---- MODULE Spec2Model ----
(***************************************************************************)
(* Model of the menu extraction of stw-mensa-api (src/src/menu.rs):        *)
(* the tag classifier MealTag::from_name, the price parser                 *)
(* MealPrice::from_str with its f64 arithmetic, the text normalisation     *)
(* text_content, and MensaMenu::load as a step machine, one instance per   *)
(* call.                                                                   *)
(*                                                                         *)
(* A string is a sequence of one-character strings.  Option<T> is a        *)
(* sequence of length at most one: None is << >>, Some(x) is << x >>.      *)
(***************************************************************************)
EXTENDS Integers, Sequences, FiniteSets, TLC

VARIABLES resp, date, pc, gi, mi, res, category, name, tags, ptext, result,
          trace, tagIn, tagOut, priceIn, priceOut

vars == <<resp, date, pc, gi, mi, res, category, name, tags, ptext, result,
          trace, tagIn, tagOut, priceIn, priceOut>>

callVars == <<resp, date, pc, gi, mi, res, category, name, tags, ptext,
              result, trace>>

None == << >>

Some(x) == << x >>

(***************************************************************************)
(* Bounds of the model.                                                    *)
(***************************************************************************)
\* calls of load that run interleaved
NumCalls == 2
\* group wrappers in a document
MaxGroups == 2
\* meal entries in a document, over all its group wrappers
MaxMeals == 2
\* whitespace characters around a tag code or a price string
MaxPad == 1
\* '/'-separated pieces of a generated price string
MaxPieces == 4

(***************************************************************************)
(* Strings.                                                                *)
(***************************************************************************)
\* the characters of the model's alphabet for which char::is_whitespace holds
WhiteSpace == {" ", "\t", "\n"}

RECURSIVE TrimStart(_)
\* str::trim_start: drops the leading whitespace characters
TrimStart(s) ==
    IF s # << >> /\ Head(s) \in WhiteSpace THEN TrimStart(Tail(s)) ELSE s

RECURSIVE TrimEnd(_)
\* str::trim_end: drops the trailing whitespace characters
TrimEnd(s) ==
    IF s # << >> /\ s[Len(s)] \in WhiteSpace
    THEN TrimEnd(SubSeq(s, 1, Len(s) - 1))
    ELSE s

\* str::trim
Trim(s) == TrimEnd(TrimStart(s))

RECURSIVE Join(_, _)
\* [&str]::join(sep)
Join(ss, sep) ==
    IF ss = << >> THEN << >>
    ELSE IF Len(ss) = 1 THEN ss[1]
    ELSE ss[1] \o sep \o Join(Tail(ss), sep)

\* text_content: every text node trimmed, joined by one space, trimmed again
TextContent(nodes) ==
    Trim(Join([i \in 1..Len(nodes) |-> Trim(nodes[i])], <<" ">>))

\* the first index >= i of character c in s, 0 when there is none
IndexOf(s, c, i) ==
    IF \E k \in i..Len(s) : s[k] = c
    THEN CHOOSE k \in i..Len(s) :
             s[k] = c /\ \A j \in i..(k - 1) : s[j] # c
    ELSE 0

\* str::split_once(" "): None, or Some of the parts around the first space
SplitOnce(s) ==
    LET spaceAt == IndexOf(s, " ", 1)
    IN  IF spaceAt = 0 THEN None
        ELSE Some(<<SubSeq(s, 1, spaceAt - 1), SubSeq(s, spaceAt + 1, Len(s))>>)

RECURSIVE Split(_, _)
\* str::split(c): the pieces between the occurrences of c, empty ones kept
Split(s, c) ==
    IF IndexOf(s, c, 1) = 0 THEN <<s>>
    ELSE <<SubSeq(s, 1, IndexOf(s, c, 1) - 1)>>
         \o Split(SubSeq(s, IndexOf(s, c, 1) + 1, Len(s)), c)

\* str::replace(",", ".")
ReplaceComma(s) == [i \in 1..Len(s) |-> IF s[i] = "," THEN "." ELSE s[i]]

(***************************************************************************)
(* The tag classifier.                                                     *)
(***************************************************************************)
\* enum Color
Green == "Green"

Orange == "Orange"

Red == "Red"

Color == {Green, Orange, Red}

\* enum MealTag: a variant is a sequence of its name and its payload
Vegetarian == <<"Vegetarian">>

Vegan == <<"Vegan">>

Fairtrade == <<"Fairtrade">>

ClimateFood == <<"ClimateFood">>

SustainableFarming == <<"SustainableFarming">>

SustainableFishing == <<"SustainableFishing">>

Frozen == <<"Frozen">>

Co2(c) == <<"Co2", c>>

WaterUsage(c) == <<"WaterUsage", c>>

Quality(c) == <<"Quality", c>>

MealTag ==
    {Vegetarian, Vegan, Fairtrade, ClimateFood, SustainableFarming,
     SustainableFishing, Frozen}
    \cup {Co2(c) : c \in Color} \cup {WaterUsage(c) : c \in Color}
    \cup {Quality(c) : c \in Color}

\* the string literals of the match arms of from_name
Code_gruen == <<"g", "r", "u", "e", "n">>

Code_gelb == <<"g", "e", "l", "b">>

Code_rot == <<"r", "o", "t">>

Code_vegetarisch == <<"v", "e", "g", "e", "t", "a", "r", "i", "s", "c", "h">>

Code_vegan == <<"v", "e", "g", "a", "n">>

Code_bio == <<"b", "i", "o">>

Code_klima == <<"k", "l", "i", "m", "a">>

Code_msc == <<"m", "s", "c">>

Code_CO2_bewertung_A == <<"C", "O", "2", "_", "b", "e", "w", "e", "r", "t", "u", "n", "g", "_", "A">>

Code_CO2_bewertung_B == <<"C", "O", "2", "_", "b", "e", "w", "e", "r", "t", "u", "n", "g", "_", "B">>

Code_CO2_bewertung_C == <<"C", "O", "2", "_", "b", "e", "w", "e", "r", "t", "u", "n", "g", "_", "C">>

Code_H2O_bewertung_A == <<"H", "2", "O", "_", "b", "e", "w", "e", "r", "t", "u", "n", "g", "_", "A">>

Code_H2O_bewertung_B == <<"H", "2", "O", "_", "b", "e", "w", "e", "r", "t", "u", "n", "g", "_", "B">>

Code_H2O_bewertung_C == <<"H", "2", "O", "_", "b", "e", "w", "e", "r", "t", "u", "n", "g", "_", "C">>

\* from_name matching the untrimmed string (mutant)
from_name_untrimmed(v) ==
    LET untrimmed == v
    IN  CASE untrimmed = Code_gruen -> Some(Quality(Green))
          [] untrimmed = Code_gelb -> Some(Quality(Orange))
          [] untrimmed = Code_rot -> Some(Quality(Red))
          [] untrimmed = Code_vegetarisch -> Some(Vegetarian)
          [] untrimmed = Code_vegan -> Some(Vegan)
          [] untrimmed = Code_bio -> Some(SustainableFarming)
          [] untrimmed = Code_klima -> Some(ClimateFood)
          [] untrimmed = Code_msc -> Some(SustainableFishing)
          [] untrimmed = Code_CO2_bewertung_A -> Some(Co2(Green))
          [] untrimmed = Code_CO2_bewertung_B -> Some(Co2(Orange))
          [] untrimmed = Code_CO2_bewertung_C -> Some(Co2(Red))
          [] untrimmed = Code_H2O_bewertung_A -> Some(WaterUsage(Green))
          [] untrimmed = Code_H2O_bewertung_B -> Some(WaterUsage(Orange))
          [] untrimmed = Code_H2O_bewertung_C -> Some(WaterUsage(Red))
          [] OTHER -> None

\* MealTag::from_name: trim, then an exact match against the fixed table
from_name(v) ==
    LET trimmed == Trim(v)
    IN  CASE trimmed = Code_gruen -> Some(Quality(Green))
          [] trimmed = Code_gelb -> Some(Quality(Orange))
          [] trimmed = Code_rot -> Some(Quality(Red))
          [] trimmed = Code_vegetarisch -> Some(Vegetarian)
          [] trimmed = Code_vegan -> Some(Vegan)
          [] trimmed = Code_bio -> Some(SustainableFarming)
          [] trimmed = Code_klima -> Some(ClimateFood)
          [] trimmed = Code_msc -> Some(SustainableFishing)
          [] trimmed = Code_CO2_bewertung_A -> Some(Co2(Green))
          [] trimmed = Code_CO2_bewertung_B -> Some(Co2(Orange))
          [] trimmed = Code_CO2_bewertung_C -> Some(Co2(Red))
          [] trimmed = Code_H2O_bewertung_A -> Some(WaterUsage(Green))
          [] trimmed = Code_H2O_bewertung_B -> Some(WaterUsage(Orange))
          [] trimmed = Code_H2O_bewertung_C -> Some(WaterUsage(Red))
          [] OTHER -> None

(***************************************************************************)
(* f64.  A finite non-zero double is sign, 53 mantissa bits (most          *)
(* significant first, the first one set) and the exponent q of its first   *)
(* bit: its value is m * 2^(q - 52).  The alphabet of the model has no     *)
(* exponent letter and no letters of "inf", "infinity" or "nan", so these  *)
(* forms of the f64 grammar cannot occur in a piece.                       *)
(***************************************************************************)
\* bits of the mantissa of an f64
MantissaBits == 53

Digits == {"0", "1", "2", "3", "4", "5", "6", "7", "8", "9"}

\* the value of a decimal digit
DigitVal(c) ==
    CASE c = "0" -> 0 [] c = "1" -> 1 [] c = "2" -> 2 [] c = "3" -> 3
      [] c = "4" -> 4 [] c = "5" -> 5 [] c = "6" -> 6 [] c = "7" -> 7
      [] c = "8" -> 8 [] c = "9" -> 9

RECURSIVE DecVal(_)
\* the number a sequence of decimal digits denotes
DecVal(ds) ==
    IF ds = << >> THEN 0
    ELSE 10 * DecVal(SubSeq(ds, 1, Len(ds) - 1)) + DigitVal(ds[Len(ds)])

RECURSIVE Pow(_, _)
Pow(b, n) == IF n = 0 THEN 1 ELSE b * Pow(b, n - 1)

AllDigits(s) == \A i \in 1..Len(s) : s[i] \in Digits

\* the decimal literal grammar of f64::from_str: an optional sign, then
\* digits with at most one '.', at least one digit in all.  None when the
\* string is no such literal, else Some of sign, digits and fraction length
ParseDecimal(s) ==
    LET hasSign == s # << >> /\ s[1] \in {"+", "-"}
        unsigned == IF hasSign THEN Tail(s) ELSE s
        dotAt == IndexOf(unsigned, ".", 1)
        intPart == IF dotAt = 0 THEN unsigned
                   ELSE SubSeq(unsigned, 1, dotAt - 1)
        fracPart == IF dotAt = 0 THEN << >>
                    ELSE SubSeq(unsigned, dotAt + 1, Len(unsigned))
    IN  IF /\ AllDigits(intPart)
           /\ AllDigits(fracPart)
           /\ Len(intPart) + Len(fracPart) > 0
        THEN Some([neg |-> hasSign /\ s[1] = "-",
                   digits |-> intPart \o fracPart,
                   scale |-> Len(fracPart)])
        ELSE None

RECURSIVE Normalize(_, _, _)
\* num / den scaled by a power of two into [1, 2), with the exponent taken out
Normalize(num, den, q) ==
    IF num >= 2 * den THEN Normalize(num, 2 * den, q + 1)
    ELSE IF num < den THEN Normalize(2 * num, den, q - 1)
    ELSE <<num, den, q>>

\* 2^0 .. 2^13
PowersOfTwo ==
    <<1, 2, 4, 8, 16, 32, 64, 128, 256, 512, 1024, 2048, 4096, 8192>>

\* the bits of a sequence of digits of w bits each
BitsOfDigits(ds, w) ==
    [i \in 1..(w * Len(ds)) |->
        (ds[((i - 1) \div w) + 1] \div PowersOfTwo[w - ((i - 1) % w)]) % 2]

\* the bytes of a sequence of bits whose length is a multiple of 8
BytesOfBits(bits) ==
    [j \in 1..(Len(bits) \div 8) |->
        128 * bits[8 * j - 7] + 64 * bits[8 * j - 6] + 32 * bits[8 * j - 5]
            + 16 * bits[8 * j - 4] + 8 * bits[8 * j - 3]
            + 4 * bits[8 * j - 2] + 2 * bits[8 * j - 1] + bits[8 * j]]

\* bits without its leading zeros
StripZeros(bits) ==
    IF \A i \in 1..Len(bits) : bits[i] = 0 THEN << >>
    ELSE SubSeq(bits,
                CHOOSE i \in 1..Len(bits) :
                    bits[i] = 1 /\ \A j \in 1..(i - 1) : bits[j] = 0,
                Len(bits))

\* bits taken by one step of the long division
DivWidth == 13

RECURSIVE DivDigits(_, _, _)
\* long division in base 2^DivWidth: the expansion of r / den (r < den)
\* continued until acc holds the digits of the mantissa after its first
\* bit, and the remainder left after them
DivDigits(r, den, acc) ==
    IF DivWidth * Len(acc) = MantissaBits - 1 THEN <<acc, r>>
    ELSE DivDigits((PowersOfTwo[DivWidth + 1] * r) % den, den,
                   Append(acc, (PowersOfTwo[DivWidth + 1] * r) \div den))

\* the first MantissaBits bits of num / den (den <= num < 2 * den), and
\* twice the remainder left after them
DivBits(num, den) ==
    <<<<1>> \o BitsOfDigits(DivDigits(num - den, den, << >>)[1], DivWidth),
      2 * DivDigits(num - den, den, << >>)[2]>>

\* bits + 1, of one more bit when the carry leaves the first bit
Increment(bits) ==
    IF \A i \in 1..Len(bits) : bits[i] = 1
    THEN <<1>> \o [i \in 1..Len(bits) |-> 0]
    ELSE LET lastZero == CHOOSE i \in 1..Len(bits) :
                             bits[i] = 0 /\ \A j \in (i + 1)..Len(bits) :
                                               bits[j] = 1
         IN  [i \in 1..Len(bits) |->
                 IF i < lastZero THEN bits[i]
                 ELSE IF i = lastZero THEN 1 ELSE 0]

\* round to nearest, ties to even: kept bits, whether the dropped part is
\* above, at or below one half of the last kept bit ("gt", "eq", "lt"), and
\* the exponent q of the first kept bit
RoundNearestEven(kept, half, q) ==
    LET roundUp == half = "gt" \/ (half = "eq" /\ kept[Len(kept)] = 1)
        incremented == Increment(kept)
    IN  IF ~roundUp THEN <<kept, q>>
        ELSE IF Len(incremented) > Len(kept)
        THEN <<SubSeq(incremented, 1, Len(kept)), q + 1>>
        ELSE <<incremented, q>>

\* the f64 nearest to digits / 10^scale, as f64::from_str returns it
DecToF64(neg, digits, scale) ==
    LET decN == DecVal(digits)
        normed == Normalize(decN, Pow(10, scale), 0)
        quotient == DivBits(normed[1], normed[2])
        decHalf == IF quotient[2] > normed[2] THEN "gt"
                   ELSE IF quotient[2] = normed[2] THEN "eq" ELSE "lt"
        decRounded == RoundNearestEven(quotient[1], decHalf, normed[3])
    IN  IF decN = 0 THEN [neg |-> neg, zero |-> TRUE, m |-> << >>, q |-> 0]
        ELSE [neg |-> neg, zero |-> FALSE, m |-> decRounded[1],
              q |-> decRounded[2]]

\* str::parse::<f64>() on the alphabet of the model
ParseF64(s) ==
    LET literal == ParseDecimal(s)
    IN  IF literal = None THEN None
        ELSE Some(DecToF64(literal[1].neg, literal[1].digits,
                           literal[1].scale))

RECURSIVE MulBytes(_, _, _)
\* bytes * k + carry for a small k, byte by byte from the last
MulBytes(bs, k, carry) ==
    IF carry = 0 /\ bs = << >> THEN << >>
    ELSE IF bs = << >>
    THEN MulBytes(<< >>, k, carry \div 256) \o <<carry % 256>>
    ELSE MulBytes(SubSeq(bs, 1, Len(bs) - 1), k,
                  (k * bs[Len(bs)] + carry) \div 256)
         \o <<(k * bs[Len(bs)] + carry) % 256>>

\* bits * k for a small k, with no leading zero
MulSmall(bits, k) ==
    StripZeros(BitsOfDigits(MulBytes(
        BytesOfBits([i \in 1..((8 - (Len(bits) % 8)) % 8) |-> 0] \o bits),
        k, 0), 8))

\* whether the bits dropped by a rounding are above, at or below one half
HalfOf(rest) ==
    IF rest = << >> \/ rest[1] = 0
    THEN IF \E i \in 1..Len(rest) : rest[i] = 1 THEN "lt" ELSE "zero"
    ELSE IF \E i \in 2..Len(rest) : rest[i] = 1 THEN "gt" ELSE "eq"

\* v * 100.0 in f64: 100.0 is 25 * 2^2, the exact product is rounded to
\* nearest, ties to even
MulBy100(v) ==
    LET product == MulSmall(v.m, 25)
        prodKept == SubSeq(product, 1, MantissaBits)
        prodRest == SubSeq(product, MantissaBits + 1, Len(product))
        prodRounded ==
            RoundNearestEven(prodKept, HalfOf(prodRest),
                             v.q + 2 + (Len(product) - MantissaBits))
    IN  IF v.zero THEN v
        ELSE [neg |-> v.neg, zero |-> FALSE, m |-> prodRounded[1],
              q |-> prodRounded[2]]

RECURSIVE BitsToNat(_)
BitsToNat(bits) ==
    IF bits = << >> THEN 0
    ELSE 2 * BitsToNat(SubSeq(bits, 1, Len(bits) - 1)) + bits[Len(bits)]

\* `as u64`: truncation toward zero, a negative value saturates to 0 (the
\* values of the model stay far below 2^64)
AsU64(v) ==
    IF v.zero \/ v.neg \/ v.q < 0 THEN 0
    ELSE BitsToNat(SubSeq(v.m, 1, v.q + 1))

(***************************************************************************)
(* The price parser.  Result<MealPrice, ()> is an Option: Err(()) is None. *)
(***************************************************************************)
\* the length test of from_str accepting exactly three prices (mutant)
TooFewPricesNotThree(prices) == Len(prices) # 3

\* `prices.len() < 3`
TooFewPrices(prices) == Len(prices) < 3

\* the closure chain of from_str on one piece: parse::<f64>, then
\* (v * 100.0) as u64; None when the parse fails
PieceCents(piece) ==
    LET parsedF64 == ParseF64(piece)
    IN  IF parsedF64 = None THEN None ELSE Some(AsU64(MulBy100(parsedF64[1])))

\* a Result put before the Results collected after it: the first Err wins
ConsResult(h, t) ==
    IF h = None THEN None
    ELSE IF t = None THEN None
    ELSE Some(h \o t[1])

RECURSIVE CollectCents(_)
\* .map(...).map(...).collect::<Result<Vec<_>, ()>>(): the cents of the
\* pieces, None when one piece fails
CollectCents(pieces) ==
    IF pieces = << >> THEN Some(<< >>)
    ELSE ConsResult(PieceCents(Head(pieces)), CollectCents(Tail(pieces)))

\* <MealPrice as FromStr>::from_str
from_str(s) ==
    LET halves == SplitOnce(Trim(s))
    IN  IF halves = None THEN None
        ELSE LET cents ==
                     CollectCents(Split(ReplaceComma(halves[1][2]), "/"))
             IN  IF cents = None THEN None
                 ELSE IF TooFewPrices(cents[1]) THEN None
                 ELSE Some([student |-> cents[1][1],
                            medium |-> cents[1][2],
                            expensive |-> cents[1][3]])

(***************************************************************************)
(* Inputs of the two pure functions.                                       *)
(***************************************************************************)
RECURSIVE SeqsUpTo(_, _)
\* the sequences over S of length at most n
SeqsUpTo(S, n) ==
    IF n = 0 THEN {<< >>}
    ELSE SeqsUpTo(S, n - 1)
         \cup {Append(q, x) : q \in SeqsUpTo(S, n - 1), x \in S}

\* whitespace before and after a string, MaxPad characters in all
PadPairs ==
    {pr \in SeqsUpTo(WhiteSpace, MaxPad) \X SeqsUpTo(WhiteSpace, MaxPad) :
        Len(pr[1]) + Len(pr[2]) <= MaxPad}

LowerCase == <<"a", "b", "c", "d", "e", "f", "g", "h", "i", "j", "k", "l", "m", "n", "o", "p", "q", "r", "s", "t", "u", "v", "w", "x", "y", "z">>

UpperCase == <<"A", "B", "C", "D", "E", "F", "G", "H", "I", "J", "K", "L", "M", "N", "O", "P", "Q", "R", "S", "T", "U", "V", "W", "X", "Y", "Z">>

\* the character with its letter case exchanged
SwapCase(c) ==
    IF \E i \in 1..26 : LowerCase[i] = c
    THEN UpperCase[CHOOSE i \in 1..26 : LowerCase[i] = c]
    ELSE IF \E i \in 1..26 : UpperCase[i] = c
    THEN LowerCase[CHOOSE i \in 1..26 : UpperCase[i] = c]
    ELSE c

\* the 14 codes matched by from_name
Codes ==
    {Code_gruen, Code_gelb, Code_rot, Code_vegetarisch, Code_vegan, Code_bio,
     Code_klima, Code_msc, Code_CO2_bewertung_A, Code_CO2_bewertung_B,
     Code_CO2_bewertung_C, Code_H2O_bewertung_A, Code_H2O_bewertung_B,
     Code_H2O_bewertung_C}

\* strings with no whitespace at either end: the codes, every code with the
\* case of one or of all letters exchanged, with its last character
\* dropped, with a character added, with a space inside, and other strings
TagCores ==
    Codes
    \cup {[c EXCEPT ![i] = SwapCase(c[i])] : c \in Codes, i \in 1..3}
    \cup {[i \in 1..Len(c) |-> SwapCase(c[i])] : c \in Codes}
    \cup {SubSeq(c, 1, Len(c) - 1) : c \in Codes}
    \cup {Append(c, "x") : c \in Codes}
    \cup {<<Head(c), " ">> \o Tail(c) : c \in Codes}
    \cup {<< >>, <<"x">>, <<"F", "a", "i", "r", "t", "r", "a", "d", "e">>,
          <<"F", "r", "o", "z", "e", "n">>,
          <<"f", "a", "i", "r", "t", "r", "a", "d", "e">>,
          <<"t", "k">>, <<"V", "e", "g", "a", "n">>}

\* the strings given to from_name
TagInputs == {pr[1] \o c \o pr[2] : pr \in PadPairs, c \in TagCores}

\* pieces of a price that occur in any number and at any place
CommonPieces == {<<"2", ",", "5", "0">>, <<"a">>}

\* pieces for the edges of the f64 grammar
OddPieces ==
    {<< >>, <<" ", "1">>, <<"1", " ">>, <<"-", "1">>, <<"+", "1">>,
     <<".", "5">>, <<"5", ".">>, <<".">>, <<"+">>, <<"-">>,
     <<"1", ".", "5">>, <<"1", ",", "2", ".", "3">>, <<"1", ",", ",", "2">>,
     <<"0">>, <<"-", "0", ",", "0", "1">>, <<"1", "2", ",", "3", "4", "5">>,
     <<"0", ",", "0", "0", "5">>, <<"1", "\t">>, <<"b">>}

One == <<"1">>

\* the sequences of pieces of the generated price strings
PieceSeqs ==
    (SeqsUpTo(CommonPieces, MaxPieces) \ {<< >>})
    \cup {[<<One, One, One>> EXCEPT ![i] = p] : i \in 1..3, p \in OddPieces}
    \cup {[<<One, One, One, One>> EXCEPT ![i] = p] :
             i \in 1..4, p \in OddPieces}

\* the text before the prices
PriceLabels == {<<"x">>, <<"P", "r", "e", "i", "s">>, << >>}

\* what stands between the label and the prices
PriceSeps == {<<" ">>, << >>, <<"\t">>, <<" ", " ">>}

\* all prices d,dd of one integer digit and two fraction digits
Decimals == {<<a, ",", b, c>> : a \in Digits, b \in Digits, c \in Digits}

\* the price strings that are given with whitespace around them
PaddedPrices ==
    {<<"x", " ", "1", "/", "2", "/", "3">>, <<"x", "/", "1", "/", "2">>,
     << >>}

\* the strings given to from_str
PriceInputs ==
    {lab \o sep \o Join(ps, <<"/">>) :
        lab \in PriceLabels, sep \in PriceSeps, ps \in PieceSeqs}
    \cup {pr[1] \o s \o pr[2] : pr \in PadPairs, s \in PaddedPrices}
    \cup {<<"x", " ">> \o d \o <<"/", "1", "/", "2">> : d \in Decimals}
    \cup {<<"P", "r", "e", "i", "s", " ", "2", ",", "5", "0", "/", "3", ",",
            "8", "0", "/", "4", ",", "9", "0">>,
          <<"x", " ", "1", "/", "2", "/", "3">>,
          <<"x", " ", "1", "/", "2">>, <<"1", "/", "2", "/", "3">>,
          <<"x", " ", "a", "/", "b", "/", "c">>}

(***************************************************************************)
(* Documents.  Html::parse_document and the six selectors of load reduce a *)
(* response to what load reads of it: the group wrappers in document       *)
(* order, of each wrapper the inner HTML of its .splGroup elements and its *)
(* .splMeal elements in document order, and of each meal the text nodes of *)
(* its span.bold elements, the inner HTML of its tooltip spans and the     *)
(* text nodes of its div.text-right elements.                              *)
(***************************************************************************)
\* a meal entry with one recognised and one unrecognised tooltip code
MealSoup ==
    [names |-> << <<<<"\n", "S", "u", "p", "p", "e", " ">>>> >>,
     tooltips |-> <<Code_vegan, <<"t", "k">>>>,
     prices |-> << <<<<"x", " ", "1", "/", "2", "/", "3">>>> >>]

\* two name elements, the first of two text nodes; the same code on two
\* tooltip spans and an unrecognised code on another; two price elements,
\* the first of two text nodes
MealRice ==
    [names |-> << <<<<"R", "e", "i", "s", " ">>, <<" ", "m", "i", "t">>>>, <<<<"Z">>>> >>,
     tooltips |-> <<Code_vegan, <<"t", "k">>,
                    <<" ">> \o Code_vegan \o <<"\n">>, Code_bio>>,
     prices |-> << <<<<"P", "r", "e", "i", "s">>, <<" ", "2", ",", "5", "0", "/", "3", ",", "8", "0", "/", "4", ",", "9", "0", "\n">>>>, <<<<"a">>>> >>]

\* no name element, and a price text of two pieces
MealNoName ==
    [names |-> << >>,
     tooltips |-> << >>,
     prices |-> << <<<<"x", " ", "1", "/", "2">>>> >>]

\* a name element holding only whitespace
MealBlankName ==
    [names |-> << <<<<" ", "\n">>>> >>,
     tooltips |-> <<Code_klima>>,
     prices |-> << <<<<"x", " ", "1", "/", "2", "/", "3">>>> >>]

\* no price element
MealNoPrice ==
    [names |-> << <<<<"B", "r", "o", "t">>>> >>,
     tooltips |-> <<Code_bio>>,
     prices |-> << >>]

\* a price text of two pieces
MealBadPrice ==
    [names |-> << <<<<"C", "o", "l", "a">>>> >>,
     tooltips |-> <<<<"V", "e", "g", "a", "n">>>>,
     prices |-> << <<<<"x", " ", "1", "/", "2">>>> >>]

MealPool == {MealRice, MealNoName, MealBlankName, MealNoPrice, MealBadPrice}

\* the .splGroup elements of a wrapper: none, or two
LabelOpts == {<< >>, <<"<b>Essen</b>", "Aktion">>}

\* the group wrappers holding k meal entries
GroupsWith(k) ==
    {[labels |-> l, meals |-> ms] : l \in LabelOpts, ms \in [1..k -> MealPool]}

RECURSIVE DocsWith(_, _)
\* the documents of at most g group wrappers and at most m meal entries
DocsWith(g, m) ==
    IF g = 0 THEN {<< >>}
    ELSE {<< >>} \cup
         UNION {{<<grp>> \o rest :
                    grp \in GroupsWith(k), rest \in DocsWith(g - 1, m - k)} :
                k \in 0..m}

Docs == DocsWith(MaxGroups, MaxMeals)

\* what the request of load gives: a reqwest::Error, or the text of a document
Responses == {[ok |-> FALSE]} \cup {[ok |-> TRUE, doc |-> d] : d \in Docs}

\* the dates a caller asks for
Dates == {"2024-01-15", "2024-01-16"}

(***************************************************************************)
(* MensaMenu::load, one instance per call.  The locals of a call are the   *)
(* entries at its index of the call variables.                             *)
(***************************************************************************)
Calls == 1..NumCalls

\* enum MenuError
Request == "Request"

CategoryNameNotFound == "CategoryNameNotFound"

MealNameNotFound == "MealNameNotFound"

MealPriceNotFound == "MealPriceNotFound"

\* Result<MensaMenu, MenuError>
Ok(menu) == [ok |-> TRUE, menu |-> menu]

Err(e) == [ok |-> FALSE, err |-> e]

\* one document parsed once and used by every call (mutant)
DocumentShared(c) ==
    resp[CHOOSE k \in Calls :
            resp[k].ok /\ \A j \in Calls : resp[j].ok => k <= j].doc

\* `doc`: the document parsed from the response of the call itself
Document(c) == resp[c].doc

\* the wrappers visited last to first (mutant)
GroupAtReversed(c, i) == Document(c)[Len(Document(c)) + 1 - i]

\* the i-th element of doc.select(&meal_list_sel): document order
GroupAt(c, i) == Document(c)[i]

\* the i-th element of group.select(&meal_sel) of the current wrapper
MealAt(c, i) == GroupAt(c, gi[c]).meals[i]

\* insertion at the front (mutant)
PushFront(v, x) == <<x>> \o v

\* Vec::push
Push(v, x) == Append(v, x)

\* the tags of a meal lost when one of its codes is not recognised (mutant)
FilterMapTagsAllOrNothing(spans) ==
    IF \E i \in 1..Len(spans) : from_name(spans[i]) = None THEN << >>
    ELSE [i \in 1..Len(spans) |-> from_name(spans[i])[1]]

RECURSIVE FilterMapTags(_)
\* filter_map(|v| MealTag::from_name(&v.inner_html())).collect() to a Vec
FilterMapTags(spans) ==
    IF spans = << >> THEN << >>
    ELSE from_name(Head(spans)) \o FilterMapTags(Tail(spans))

\* what a call leaves alone besides its program counter, result and trace
Locals == <<gi, mi, res, category, name, tags, ptext>>

Inputs == <<resp, date, tagIn, tagOut, priceIn, priceOut>>

\* the check `what` of wrapper g and meal m is performed
Checked(c, what, g, m) ==
    trace' = [trace EXCEPT ![c] = Append(@, <<what, g, m>>)]

\* the `?` operator on an Err: load returns the error, its locals are dropped
Abort(c, e) ==
    /\ result' = [result EXCEPT ![c] = Some(Err(e))]
    /\ pc' = [pc EXCEPT ![c] = "done"]

\* the request and `let mut res = Self { date, groups: Vec::new() }`
Fetch(c) ==
    /\ pc[c] = "fetch"
    /\ IF resp[c].ok
       THEN /\ res' = [res EXCEPT ![c] = [date |-> date[c], groups |-> << >>]]
            /\ gi' = [gi EXCEPT ![c] = 1]
            /\ pc' = [pc EXCEPT ![c] = "group"]
            /\ UNCHANGED result
       ELSE /\ Abort(c, Request)
            /\ UNCHANGED <<res, gi>>
    /\ UNCHANGED <<mi, category, name, tags, ptext, trace, Inputs>>

\* the head of the outer loop: the next wrapper and its label, or Ok(res)
NextGroup(c) ==
    /\ pc[c] = "group"
    /\ IF gi[c] > Len(Document(c))
       THEN /\ result' = [result EXCEPT ![c] = Some(Ok(res[c]))]
            /\ pc' = [pc EXCEPT ![c] = "done"]
            /\ UNCHANGED <<category, mi, trace>>
       ELSE /\ Checked(c, "label", gi[c], 0)
            /\ IF GroupAt(c, gi[c]).labels = << >>
               THEN /\ Abort(c, CategoryNameNotFound)
                    /\ UNCHANGED <<category, mi>>
               ELSE /\ category' =
                          [category EXCEPT ![c] =
                              [name |-> Head(GroupAt(c, gi[c]).labels),
                               meals |-> << >>]]
                    /\ mi' = [mi EXCEPT ![c] = 1]
                    /\ pc' = [pc EXCEPT ![c] = "meal"]
                    /\ UNCHANGED result
    /\ UNCHANGED <<gi, res, name, tags, ptext, Inputs>>

\* the head of the inner loop: the next meal and its name, or
\* res.groups.push(category)
NextMeal(c) ==
    /\ pc[c] = "meal"
    /\ IF mi[c] > Len(GroupAt(c, gi[c]).meals)
       THEN /\ res' = [res EXCEPT ![c].groups = Push(@, category[c])]
            /\ gi' = [gi EXCEPT ![c] = @ + 1]
            /\ pc' = [pc EXCEPT ![c] = "group"]
            /\ UNCHANGED <<name, result, trace>>
       ELSE /\ Checked(c, "name", gi[c], mi[c])
            /\ IF MealAt(c, mi[c]).names = << >>
               THEN /\ Abort(c, MealNameNotFound)
                    /\ UNCHANGED name
               ELSE /\ name' = [name EXCEPT ![c] =
                                   TextContent(Head(MealAt(c, mi[c]).names))]
                    /\ pc' = [pc EXCEPT ![c] = "tags"]
                    /\ UNCHANGED result
            /\ UNCHANGED <<res, gi>>
    /\ UNCHANGED <<mi, category, tags, ptext, Inputs>>

\* `let tags = ...`
CollectTags(c) ==
    /\ pc[c] = "tags"
    /\ tags' = [tags EXCEPT ![c] = FilterMapTags(MealAt(c, mi[c]).tooltips)]
    /\ pc' = [pc EXCEPT ![c] = "price"]
    /\ UNCHANGED <<gi, mi, res, category, name, ptext, result, trace, Inputs>>

\* `let price_field = ...` and its text_content
PriceField(c) ==
    /\ pc[c] = "price"
    /\ Checked(c, "price", gi[c], mi[c])
    /\ IF MealAt(c, mi[c]).prices = << >>
       THEN /\ Abort(c, MealPriceNotFound)
            /\ UNCHANGED ptext
       ELSE /\ ptext' = [ptext EXCEPT ![c] =
                            TextContent(Head(MealAt(c, mi[c]).prices))]
            /\ pc' = [pc EXCEPT ![c] = "parse"]
            /\ UNCHANGED result
    /\ UNCHANGED <<gi, mi, res, category, name, tags, Inputs>>

\* ParsePrice leaving out a meal whose price does not parse (mutant)
ParsePriceSkipping(c) ==
    /\ pc[c] = "parse"
    /\ Checked(c, "parse", gi[c], mi[c])
    /\ LET skippedPrice == from_str(ptext[c])
       IN  /\ category' =
                 [category EXCEPT ![c].meals =
                     IF skippedPrice = None THEN @
                     ELSE Push(@, [name |-> name[c],
                                   price |-> skippedPrice[1],
                                   tags |-> tags[c]])]
           /\ mi' = [mi EXCEPT ![c] = @ + 1]
           /\ pc' = [pc EXCEPT ![c] = "meal"]
           /\ UNCHANGED result
    /\ UNCHANGED <<gi, res, name, tags, ptext, Inputs>>

\* `.parse().map_err(...)?` and category.meals.push(Meal { name, price, tags })
ParsePrice(c) ==
    /\ pc[c] = "parse"
    /\ Checked(c, "parse", gi[c], mi[c])
    /\ LET parsedPrice == from_str(ptext[c])
       IN  IF parsedPrice = None
           THEN /\ Abort(c, MealPriceNotFound)
                /\ UNCHANGED <<category, mi>>
           ELSE /\ category' =
                      [category EXCEPT ![c].meals =
                          Push(@, [name |-> name[c],
                                   price |-> parsedPrice[1],
                                   tags |-> tags[c]])]
                /\ mi' = [mi EXCEPT ![c] = @ + 1]
                /\ pc' = [pc EXCEPT ![c] = "meal"]
                /\ UNCHANGED result
    /\ UNCHANGED <<gi, res, name, tags, ptext, Inputs>>

\* the values of the locals of a call before load assigns them
NoLocals ==
    /\ gi = [c \in Calls |-> 0]
    /\ mi = [c \in Calls |-> 0]
    /\ res = [c \in Calls |-> [date |-> "", groups |-> << >>]]
    /\ category = [c \in Calls |-> [name |-> "", meals |-> << >>]]
    /\ name = [c \in Calls |-> << >>]
    /\ tags = [c \in Calls |-> << >>]
    /\ ptext = [c \in Calls |-> << >>]
    /\ result = [c \in Calls |-> None]
    /\ trace = [c \in Calls |-> << >>]

\* no call of the pure functions is under way
NoPure ==
    /\ tagIn = << >>
    /\ tagOut = [done |-> FALSE, val |-> None]
    /\ priceIn = << >>
    /\ priceOut = [done |-> FALSE, val |-> None]

\* no call of load is under way
NoCalls ==
    /\ resp = [c \in Calls |-> [ok |-> FALSE]]
    /\ date = [c \in Calls |-> ""]
    /\ pc = [c \in Calls |-> "idle"]
    /\ NoLocals

(***************************************************************************)
(* Spec: one call of load on any response and date.                        *)
(***************************************************************************)
Init ==
    /\ resp \in {[c \in Calls |-> IF c = 1 THEN r ELSE [ok |-> FALSE]] :
                    r \in Responses}
    /\ date = [c \in Calls |-> IF c = 1 THEN "2024-01-15" ELSE ""]
    /\ pc = [c \in Calls |-> IF c = 1 THEN "fetch" ELSE "idle"]
    /\ NoLocals
    /\ NoPure

Next ==
    \/ Fetch(1)
    \/ NextGroup(1)
    \/ NextMeal(1)
    \/ CollectTags(1)
    \/ PriceField(1)
    \/ ParsePrice(1)

Spec == Init /\ [][Next]_vars

(***************************************************************************)
(* SpecConc: NumCalls calls of load, their steps interleaved in any order. *)
(***************************************************************************)
\* the documents of the interleaved calls
ConcDocs ==
    {<<[labels |-> <<"Suppen">>, meals |-> <<MealSoup>>]>>,
     <<[labels |-> <<"<b>Essen</b>", "Aktion">>, meals |-> <<MealRice>>],
       [labels |-> << >>, meals |-> << >>]>>}

ConcResponses == {[ok |-> FALSE]} \cup {[ok |-> TRUE, doc |-> d] : d \in ConcDocs}

InitConc ==
    /\ resp \in [Calls -> ConcResponses]
    /\ date \in [Calls -> Dates]
    /\ pc = [c \in Calls |-> "fetch"]
    /\ NoLocals
    /\ NoPure

NextConc ==
    \E c \in Calls :
        \/ Fetch(c)
        \/ NextGroup(c)
        \/ NextMeal(c)
        \/ CollectTags(c)
        \/ PriceField(c)
        \/ ParsePrice(c)

SpecConc == InitConc /\ [][NextConc]_vars

(***************************************************************************)
(* SpecTag and SpecPrice: one call of a pure function on any input.        *)
(***************************************************************************)
InitTag ==
    /\ tagIn \in TagInputs
    /\ tagOut = [done |-> FALSE, val |-> None]
    /\ priceIn = << >>
    /\ priceOut = [done |-> FALSE, val |-> None]
    /\ NoCalls

\* a call of MealTag::from_name
Classify ==
    /\ ~tagOut.done
    /\ tagOut' = [done |-> TRUE, val |-> from_name(tagIn)]
    /\ UNCHANGED <<tagIn, priceIn, priceOut, callVars>>

SpecTag == InitTag /\ [][Classify]_vars

InitPrice ==
    /\ priceIn \in PriceInputs
    /\ priceOut = [done |-> FALSE, val |-> None]
    /\ tagIn = << >>
    /\ tagOut = [done |-> FALSE, val |-> None]
    /\ NoCalls

\* a call of MealPrice::from_str
Parse ==
    /\ ~priceOut.done
    /\ priceOut' = [done |-> TRUE, val |-> from_str(priceIn)]
    /\ UNCHANGED <<tagIn, tagOut, priceIn, callVars>>

SpecPrice == InitPrice /\ [][Parse]_vars

(***************************************************************************)
(* load as a function of the response and the date of one call: what the   *)
(* call returns when it runs alone.                                        *)
(***************************************************************************)
Good(x) == [ok |-> TRUE, val |-> x]

\* an outcome put before the outcomes after it: the first error wins
ConsOutcome(h, t) ==
    IF ~h.ok THEN h
    ELSE IF ~t.ok THEN t
    ELSE Good(<<h.val>> \o t.val)

\* the body of the inner loop on one meal entry
MealAlone(meal) ==
    IF meal.names = << >> THEN Err(MealNameNotFound)
    ELSE IF meal.prices = << >> THEN Err(MealPriceNotFound)
    ELSE IF from_str(TextContent(Head(meal.prices))) = None
    THEN Err(MealPriceNotFound)
    ELSE Good([name |-> TextContent(Head(meal.names)),
               price |-> from_str(TextContent(Head(meal.prices)))[1],
               tags |-> FilterMapTags(meal.tooltips)])

\* the meal entries of the documents, and each without its tooltip spans
Meals ==
    (MealPool \cup {MealSoup})
    \cup {[meal EXCEPT !.tooltips = << >>] : meal \in MealPool \cup {MealSoup}}

\* MealAlone of every meal entry of the documents, computed once
MealAloneOf == [meal \in Meals |-> MealAlone(meal)]

RECURSIVE MealsAlone(_)
MealsAlone(ms) ==
    IF ms = << >> THEN Good(<< >>)
    ELSE ConsOutcome(MealAloneOf[Head(ms)], MealsAlone(Tail(ms)))

\* the body of the outer loop on one group wrapper
GroupAlone(g) ==
    LET mealsAlone == MealsAlone(g.meals)
    IN  IF g.labels = << >> THEN Err(CategoryNameNotFound)
        ELSE IF ~mealsAlone.ok THEN mealsAlone
        ELSE Good([name |-> Head(g.labels), meals |-> mealsAlone.val])

RECURSIVE GroupsAlone(_)
GroupsAlone(gs) ==
    IF gs = << >> THEN Good(<< >>)
    ELSE ConsOutcome(GroupAlone(Head(gs)), GroupsAlone(Tail(gs)))

LoadAlone(r, d) ==
    LET groupsAlone == GroupsAlone(r.doc)
    IN  IF ~r.ok THEN Err(Request)
        ELSE IF ~groupsAlone.ok THEN groupsAlone
        ELSE Ok([date |-> d, groups |-> groupsAlone.val])

(***************************************************************************)
(* Properties of load.                                                     *)
(***************************************************************************)
Done(c) == pc[c] = "done"

\* the call has parsed a document and returned
Extracted(c) == Done(c) /\ resp[c].ok

Succeeded(c) == Extracted(c) /\ result[c][1].ok

Failed(c) == Extracted(c) /\ ~result[c][1].ok

\* the meals of the result of a call that succeeded, by wrapper and entry
ReturnedMeals(c) ==
    {<<g, m>> \in (1..MaxGroups + 1) \X (1..MaxMeals + 1) :
        /\ g <= Len(result[c][1].menu.groups)
        /\ m <= Len(result[c][1].menu.groups[g].meals)}

ReturnedMeal(c, g, m) == result[c][1].menu.groups[g].meals[m]

LabelMissing(d, g) == d[g].labels = << >>

NameMissing(d, g, m) == d[g].meals[m].names = << >>

PriceMissing(d, g, m) == d[g].meals[m].prices = << >>

\* whether the price text of a meal entry fails to parse, of every meal
\* entry of the documents, computed once
UnparsableOf ==
    [meal \in Meals |->
        /\ meal.prices # << >>
        /\ from_str(TextContent(Head(meal.prices))) = None]

PriceUnparsable(d, g, m) == UnparsableOf[d[g].meals[m]]

HasDefect(d) ==
    \E g \in 1..Len(d) :
        \/ LabelMissing(d, g)
        \/ \E m \in 1..Len(d[g].meals) :
              \/ NameMissing(d, g, m)
              \/ PriceMissing(d, g, m)
              \/ PriceUnparsable(d, g, m)

\* C1: a call on a document with any defect (a wrapper without label, a
\* meal without name element, without price element or with a price text
\* that does not parse) returns an error, which holds no menu: nothing
\* extracted before the defect is returned.
C1_NoPartialSuccess ==
    \A c \in Calls :
        (Extracted(c) /\ HasDefect(resp[c].doc))
            => /\ ~result[c][1].ok
               /\ DOMAIN result[c][1] = {"ok", "err"}
               /\ result[c][1].err \in
                      {CategoryNameNotFound, MealNameNotFound,
                       MealPriceNotFound}

\* C1 witness: a call failed after it had extracted a meal or a group
C1_Witness ==
    /\ Failed(1)
    /\ HasDefect(resp[1].doc)
    /\ (res[1].groups # << >> \/ category[1].meals # << >>)

\* C2: a successful result has one group per wrapper and in each group one
\* meal per meal entry of that wrapper, in document order: the g-th group
\* has the label of the g-th wrapper, its m-th meal the name, price and
\* tooltip spans of the m-th entry of that wrapper.
C2_OneGroupPerWrapperInOrder ==
    \A c \in Calls :
        Succeeded(c) =>
            LET c2doc == resp[c].doc
                c2groups == result[c][1].menu.groups
            IN  /\ Len(c2groups) = Len(c2doc)
                /\ \A g \in 1..Len(c2doc) :
                      /\ c2groups[g].name = Head(c2doc[g].labels)
                      /\ Len(c2groups[g].meals) = Len(c2doc[g].meals)
                      /\ \A m \in 1..Len(c2doc[g].meals) :
                            c2groups[g].meals[m] = MealAloneOf[c2doc[g].meals[m]].val

\* C2 witness: a result of two groups whose meals differ
C2_Witness ==
    /\ Succeeded(1)
    /\ Len(result[1][1].menu.groups) = 2
    /\ Len(result[1][1].menu.groups[1].meals) = 1
    /\ Len(result[1][1].menu.groups[2].meals) = 1
    /\ ReturnedMeal(1, 1, 1).name # ReturnedMeal(1, 2, 1).name

\* whether tags holds the same value at two places
HasDuplicate(tg) ==
    \E i \in 1..Len(tg) : \E j \in 1..Len(tg) : i # j /\ tg[i] = tg[j]

\* C5 (as claimed): no meal of a successful result holds a tag twice.
C5_TagsAreSet ==
    \A c \in Calls :
        Succeeded(c) =>
            \A gm \in ReturnedMeals(c) :
                ~HasDuplicate(ReturnedMeal(c, gm[1], gm[2]).tags)

Count(S) == Cardinality(S)

\* the document with no tooltip span in any meal entry
WithoutTooltips(d) ==
    [g \in 1..Len(d) |->
        [d[g] EXCEPT !.meals =
            [m \in 1..Len(d[g].meals) |->
                [d[g].meals[m] EXCEPT !.tooltips = << >>]]]]

\* the menu with no tag in any meal
WithoutTags(menu) ==
    [menu EXCEPT !.groups =
        [g \in 1..Len(menu.groups) |->
            [menu.groups[g] EXCEPT !.meals =
                [m \in 1..Len(menu.groups[g].meals) |->
                    [menu.groups[g].meals[m] EXCEPT !.tags = << >>]]]]]

\* C6: the tags of a meal are the classifier's values of the tooltip spans
\* with a recognised code, each as often as it occurs, and nothing else;
\* and the outcome of the call (success or which error, and the menu apart
\* from the tags) is that of the same document without any tooltip span.
C6_UnrecognisedDropped ==
    \A c \in Calls :
        Extracted(c) =>
            /\ Succeeded(c) =>
                  \A gm \in ReturnedMeals(c) :
                      LET c6spans == resp[c].doc[gm[1]].meals[gm[2]].tooltips
                          c6tags == ReturnedMeal(c, gm[1], gm[2]).tags
                      IN  /\ Len(c6tags) = Count({i \in 1..Len(c6spans) :
                                                 from_name(c6spans[i]) # None})
                          /\ \A t \in MealTag :
                                Count({j \in 1..Len(c6tags) : c6tags[j] = t}) =
                                Count({i \in 1..Len(c6spans) :
                                          from_name(c6spans[i]) = Some(t)})
            /\ LET c6bare == LoadAlone([ok |-> TRUE,
                                      doc |-> WithoutTooltips(resp[c].doc)],
                                     date[c])
               IN  /\ result[c][1].ok = c6bare.ok
                   /\ ~c6bare.ok => result[c][1] = c6bare
                   /\ c6bare.ok => WithoutTags(result[c][1].menu) = c6bare.menu

\* C6 witness: a meal of a successful result with a tag kept and a code
\* dropped
C6_Witness ==
    /\ Succeeded(1)
    /\ \E gm \in ReturnedMeals(1) :
          /\ ReturnedMeal(1, gm[1], gm[2]).tags # << >>
          /\ Len(ReturnedMeal(1, gm[1], gm[2]).tags)
                < Len(resp[1].doc[gm[1]].meals[gm[2]].tooltips)

\* C7 (as claimed): every meal of a successful result has a non-empty name.
C7_NameNonEmpty ==
    \A c \in Calls :
        Succeeded(c) =>
            \A gm \in ReturnedMeals(c) :
                ReturnedMeal(c, gm[1], gm[2]).name # << >>

(***************************************************************************)
(* The order of the checks of load.                                        *)
(***************************************************************************)
\* the checks of the body of the inner loop, in the order of its statements
MealChecks == <<"name", "price", "parse">>

\* the checks of the g-th wrapper: its label, then the checks of its meals
GroupChecks(d, g) ==
    [i \in 1..(1 + 3 * Len(d[g].meals)) |->
        IF i = 1 THEN <<"label", g, 0>>
        ELSE <<MealChecks[((i - 2) % 3) + 1], g, ((i - 2) \div 3) + 1>>]

RECURSIVE ChecksFrom(_, _)
\* the checks of the wrappers g, g + 1, ... of a document
ChecksFrom(d, g) ==
    IF g > Len(d) THEN << >>
    ELSE GroupChecks(d, g) \o ChecksFrom(d, g + 1)

\* every check load performs on a document without defect, in order
CheckOrder(d) == ChecksFrom(d, 1)

\* whether a check fails on the document
Fails(d, chk) ==
    CASE chk[1] = "label" -> LabelMissing(d, chk[2])
      [] chk[1] = "name" -> NameMissing(d, chk[2], chk[3])
      [] chk[1] = "price" -> PriceMissing(d, chk[2], chk[3])
      [] chk[1] = "parse" -> PriceUnparsable(d, chk[2], chk[3])

\* the error load returns when a check fails
ErrorOf(chk) ==
    CASE chk[1] = "label" -> CategoryNameNotFound
      [] chk[1] = "name" -> MealNameNotFound
      [] chk[1] = "price" -> MealPriceNotFound
      [] chk[1] = "parse" -> MealPriceNotFound

\* the checks of a document that fail, by their place in CheckOrder
FailingChecks(d) ==
    {i \in 1..Len(CheckOrder(d)) : Fails(d, CheckOrder(d)[i])}

\* C9: the checks a call has performed are the first ones of the processing
\* order (wrappers in document order, the label of a wrapper before its
\* meals, its meals in document order before the next wrapper, of a meal
\* the name element, then the price element, then the price text); every
\* check but the last performed has passed; a call that failed stopped at
\* the first failing check and returned the error of that check
\* (CategoryNameNotFound for a label, MealNameNotFound for a name,
\* MealPriceNotFound for a price element or price text); a call that
\* succeeded performed every check and none failed.
C9_FirstDefectInProcessingOrder ==
    \A c \in Calls :
        resp[c].ok =>
            LET c9doc == resp[c].doc
                c9order == CheckOrder(c9doc)
                c9n == Len(trace[c])
            IN  /\ c9n <= Len(c9order)
                /\ trace[c] = SubSeq(c9order, 1, c9n)
                /\ \A i \in 1..(c9n - 1) : ~Fails(c9doc, trace[c][i])
                /\ Failed(c) =>
                      /\ c9n > 0
                      /\ Fails(c9doc, trace[c][c9n])
                      /\ result[c][1].err = ErrorOf(trace[c][c9n])
                /\ Succeeded(c) =>
                      /\ c9n = Len(c9order)
                      /\ FailingChecks(c9doc) = {}
                /\ (~Done(c) /\ c9n > 0) => ~Fails(c9doc, trace[c][c9n])

\* C9 witness: a call failed on a document with defects of two kinds, after
\* checks that passed, and the later defect has another error than the one
\* returned
C9_Witness ==
    /\ Failed(1)
    /\ Len(trace[1]) > 2
    /\ \E i \in FailingChecks(resp[1].doc) :
          /\ i > Len(trace[1])
          /\ ErrorOf(CheckOrder(resp[1].doc)[i]) # result[1][1].err

(***************************************************************************)
(* Properties of interleaved calls, of SpecConc.                           *)
(***************************************************************************)
\* C10: the result of every call that has returned is the result of load
\* run alone on the response and date of that call, whatever the other
\* calls did in between; two calls with the same response and date return
\* equal results; a menu carries the date of its caller.
C10_CallsDoNotInterfere ==
    /\ \A c \in Calls :
          Done(c) => result[c] = Some(LoadAlone(resp[c], date[c]))
    /\ \A c \in Calls : \A k \in Calls :
          (Done(c) /\ Done(k) /\ resp[c] = resp[k] /\ date[c] = date[k])
              => result[c] = result[k]
    /\ \A c \in Calls : Succeeded(c) => result[c][1].menu.date = date[c]

\* C10 witness: two calls on different documents and dates have returned,
\* one a menu and the other an error
C10_Witness ==
    /\ Succeeded(1)
    /\ Failed(2)
    /\ date[1] # date[2]
    /\ result[1][1].menu.groups # << >>

(***************************************************************************)
(* Properties of the tag classifier, of SpecTag.                           *)
(***************************************************************************)
\* the 14 arms of the match of from_name: a code and its tag
TagTable ==
    {<<Code_gruen, Quality(Green)>>, <<Code_gelb, Quality(Orange)>>,
     <<Code_rot, Quality(Red)>>, <<Code_vegetarisch, Vegetarian>>,
     <<Code_vegan, Vegan>>, <<Code_bio, SustainableFarming>>,
     <<Code_klima, ClimateFood>>, <<Code_msc, SustainableFishing>>,
     <<Code_CO2_bewertung_A, Co2(Green)>>,
     <<Code_CO2_bewertung_B, Co2(Orange)>>,
     <<Code_CO2_bewertung_C, Co2(Red)>>,
     <<Code_H2O_bewertung_A, WaterUsage(Green)>>,
     <<Code_H2O_bewertung_B, WaterUsage(Orange)>>,
     <<Code_H2O_bewertung_C, WaterUsage(Red)>>}

\* raw is core with nothing but whitespace before and after it
Surrounds(raw, core) ==
    \E a \in 1..(Len(raw) + 1) :
        /\ a + Len(core) - 1 <= Len(raw)
        /\ SubSeq(raw, a, a + Len(core) - 1) = core
        /\ \A i \in 1..Len(raw) :
              (i < a \/ i > a + Len(core) - 1) => raw[i] \in WhiteSpace

\* C3: the classifier returns the tag of a table row exactly when its
\* input is the code of that row with nothing but whitespace around it,
\* letter for letter in the case of the table; on every other input (the
\* empty string, a code in another letter case, a code with a character
\* missing, added or inside) it returns no value; it never returns
\* Fairtrade or Frozen.
C3_TrimThenExactMatch ==
    tagOut.done =>
        /\ \A row \in TagTable :
              Surrounds(tagIn, row[1]) <=> tagOut.val = Some(row[2])
        /\ (\A row \in TagTable : ~Surrounds(tagIn, row[1]))
              <=> tagOut.val = None
        /\ tagOut.val \notin {Some(Fairtrade), Some(Frozen)}

\* C3 witness: a code with whitespace around it has been classified
C3_Witness ==
    /\ tagOut.done
    /\ tagIn # Trim(tagIn)
    /\ tagOut.val = Some(Vegan)

(***************************************************************************)
(* Properties of the price parser, of SpecPrice.                           *)
(***************************************************************************)
\* s without the whitespace at its ends
Stripped(s) ==
    IF \A i \in 1..Len(s) : s[i] \in WhiteSpace THEN << >>
    ELSE SubSeq(s,
                CHOOSE a \in 1..Len(s) :
                    s[a] \notin WhiteSpace
                    /\ \A j \in 1..(a - 1) : s[j] \in WhiteSpace,
                CHOOSE b \in 1..Len(s) :
                    s[b] \notin WhiteSpace
                    /\ \A j \in (b + 1)..Len(s) : s[j] \in WhiteSpace)

HasSpace(t) == \E i \in 1..Len(t) : t[i] = " "

\* the part of t after its first space
AfterFirstSpace(t) ==
    SubSeq(t,
           (CHOOSE i \in 1..Len(t) :
               t[i] = " " /\ \A j \in 1..(i - 1) : t[j] # " ") + 1,
           Len(t))

\* the places where r is cut into pieces: its '/', and its two ends
Cuts(r) == {0, Len(r) + 1} \cup {i \in 1..Len(r) : r[i] = "/"}

NumPieces(r) == Cardinality(Cuts(r)) - 1

\* the k-th cut of r, counted from 0
CutAt(r, k) ==
    CHOOSE a \in Cuts(r) : Cardinality({x \in Cuts(r) : x < a}) = k

\* the k-th piece of r
PieceText(r, k) == SubSeq(r, CutAt(r, k - 1) + 1, CutAt(r, k) - 1)

\* whether a piece parses as an f64 once its commas are periods
Numeric(piece) == ParseF64(ReplaceComma(piece)) # None

\* the three conditions under which from_str returns Err(())
ShouldFail(s) ==
    \/ ~HasSpace(Stripped(s))
    \/ NumPieces(AfterFirstSpace(Stripped(s))) < 3
    \/ \E k \in 1..NumPieces(AfterFirstSpace(Stripped(s))) :
          ~Numeric(PieceText(AfterFirstSpace(Stripped(s)), k))

\* the cents of the k-th piece of a price string
AmountOf(s, k) ==
    PieceCents(ReplaceComma(PieceText(AfterFirstSpace(Stripped(s)), k)))[1]

\* C4: the parser fails exactly when the string, without the whitespace
\* around it, has no space, or the part after its first space has fewer
\* than three pieces between '/', or one of these pieces (of all of them,
\* also after the third) is no number once its commas are periods; in
\* every other case it succeeds with the amounts of the first, second and
\* third piece as student, medium and expensive.
C4_FailsExactlyWhen ==
    priceOut.done =>
        IF ShouldFail(priceIn) THEN priceOut.val = None
        ELSE priceOut.val = Some([student |-> AmountOf(priceIn, 1),
                                  medium |-> AmountOf(priceIn, 2),
                                  expensive |-> AmountOf(priceIn, 3)])

\* C4 witness: a string of four numeric pieces has been parsed
C4_Witness ==
    /\ priceOut.done
    /\ priceOut.val # None
    /\ NumPieces(AfterFirstSpace(Stripped(priceIn))) = 4

\* the cents of a piece without sign computed on the decimal number itself:
\* digits / 10^scale * 100, truncated
ExactCents(piece) ==
    (DecVal(ParseDecimal(ReplaceComma(piece))[1].digits) * 100)
        \div Pow(10, ParseDecimal(ReplaceComma(piece))[1].scale)

\* the amounts of a parsed price, in the order of the pieces
Amounts(price) == <<price.student, price.medium, price.expensive>>

\* C8 (as claimed): each amount of a parsed price is the decimal value of
\* its piece times 100, truncated toward zero; stated for the pieces
\* that are not negative.
C8_CentsAreDecimalTimes100 ==
    (priceOut.done /\ priceOut.val # None) =>
        \A k \in 1..3 :
            ~ParseDecimal(ReplaceComma(
                 PieceText(AfterFirstSpace(Stripped(priceIn)), k)))[1].neg
                => Amounts(priceOut.val[1])[k] =
                       ExactCents(PieceText(AfterFirstSpace(Stripped(priceIn)), k))

====
